---- MODULE Spec2Model ----
(***************************************************************************)
(* State-machine model of useForm (src/src/useForm.ts, the three-mode      *)
(* version at lines 140-321): the reactive value map, the error map, the   *)
(* flags hasValidatedOnce / hasSubmittedOnce / isSubmitting, the binding   *)
(* cache, and the awaited submit handler.                                  *)
(***************************************************************************)
EXTENDS Integers, Sequences, FiniteSets, TLC

(* ------------------------------------------------------------------ *)
(* Bounds                                                             *)
(* ------------------------------------------------------------------ *)

\* cap on handler invocations that may be unsettled at once (the code keeps it at 1)
MaxPending == 2

\* cap on binding objects ever created for one name
MaxObjs == 2

(* ------------------------------------------------------------------ *)
(* Domains                                                            *)
(* ------------------------------------------------------------------ *)

\* field names used with bind / setValue; the schema requires "email" and
\* accepts a missing "tags"
Fields == {"email", "tags"}

\* JS undefined, as read from a missing key
UNDEF == "undefined"

\* the event object itself, stored when an event carries no target value
EVT == "evt"

\* values a caller writes: one that passes the field's schema, one that fails it
Vals == {"good", "bad"}

Modes == {"change", "submit", "blur"}

\* how the schema of field "tags" reports a bad value (the shape of its issue)
Shapes == {"key", "idx1", "nopath"}

\* with a path whose deepest segment has a null key (a set item), two issues
\* for the same entry, and an issue whose message is empty
ShapesWide == Shapes \cup {"leafnokey", "dup", "nomsg"}

EmptyMap == [x \in {} |-> UNDEF]

Put(m, k, v) == [x \in (DOMAIN m) \cup {k} |-> IF x = k THEN v ELSE m[x]]

Get(m, k) == IF k \in DOMAIN m THEN m[k] ELSE UNDEF

\* initial value maps given at construction
InitialValuesSet == { EmptyMap, [x \in {"email"} |-> "good"] }

\* with a map whose "tags" entry fails the schema
InitialValuesWide ==
  InitialValuesSet \cup { [x \in {"email", "tags"} |-> IF x = "email" THEN "good" ELSE "bad"] }

\* explicit arguments of reset(nextValues)
ResetArgs == { [x \in {"tags"} |-> "good"] }

\* arguments of setErrors(map)
SetErrorsArgs ==
  { EmptyMap, [x \in {"email"} |-> "Server error"] }

\* errors the submit handler may reject with
HandlerErrors == {"boom", "fail"}

(* ------------------------------------------------------------------ *)
(* Path segments and keys of validator issues                         *)
(* ------------------------------------------------------------------ *)

\* an object segment whose key is the string s
SStr(s) == [t |-> "str", s |-> s, n |-> 0]
\* an object segment whose key is the number n (array index)
SNum(n) == [t |-> "num", s |-> "", n |-> n]
\* an object segment whose key is null / undefined (set item)
SNoKey == [t |-> "nokey", s |-> "", n |-> 0]
\* a segment that is itself a plain string
SPlain(s) == [t |-> "plain", s |-> s, n |-> 0]

\* JS values a key expression evaluates to
KStr(s) == [t |-> "str", s |-> s, n |-> 0]
KNum(n) == [t |-> "num", s |-> "", n |-> n]
KObj == [t |-> "obj", s |-> "", n |-> 0]
KUndef == [t |-> "undef", s |-> "", n |-> 0]

\* JS truthiness
Truthy(k) ==
  CASE k.t = "str" -> k.s # ""
    [] k.t = "num" -> k.n # 0
    [] k.t = "obj" -> TRUE
    [] OTHER -> FALSE

\* seg.key
SegKey(seg) ==
  CASE seg.t = "str" -> KStr(seg.s)
    [] seg.t = "num" -> KNum(seg.n)
    [] OTHER -> KUndef

\* the segment as a JS value
SegVal(seg) == IF seg.t = "plain" THEN KStr(seg.s) ELSE KObj

\* a ?? b
Nullish(a, b) == IF a.t = "undef" THEN b ELSE a

Issue(hasPath, path, message) == [hasPath |-> hasPath, path |-> path, message |-> message]

(* ------------------------------------------------------------------ *)
(* The validator: v.safeParse(schema, values)                         *)
(* ------------------------------------------------------------------ *)

\* a required entry passes when the key is present and holds a passing value
FieldOk(vals, f) == f \in DOMAIN vals /\ vals[f] = "good"

\* an optional entry also passes when the key is missing
OptionalOk(vals, f) == f \notin DOMAIN vals \/ vals[f] = "good"

\* issues of the "email" entry: v.pipe(v.string(), v.email())
EmailIssues(vals) ==
  IF FieldOk(vals, "email") THEN << >>
  ELSE << Issue(TRUE, << SStr("email") >>, "Invalid email") >>

\* issues of the optional "tags" entry, in the shape the schema given at
\* construction reports
TagsIssues(shape, vals) ==
  IF OptionalOk(vals, "tags") THEN << >>
  ELSE CASE shape = "key" -> << Issue(TRUE, << SStr("tags") >>, "Invalid tags") >>
         [] shape = "idx1" -> << Issue(TRUE, << SStr("tags"), SNum(1) >>, "Invalid tags") >>
         [] shape = "leafnokey" -> << Issue(TRUE, << SStr("tags"), SNoKey >>, "Invalid tags") >>
         [] shape = "dup" -> << Issue(TRUE, << SStr("tags") >>, "Invalid tags"),
                                Issue(TRUE, << SStr("tags") >>, "Too few tags") >>
         [] shape = "nomsg" -> << Issue(TRUE, << SStr("tags") >>, "") >>
         [] OTHER -> << Issue(FALSE, << >>, "Invalid tags") >>

\* result.issues of v.safeParse(schema, values); empty when the parse succeeds
safeParse(shape, vals) == EmailIssues(vals) \o TagsIssues(shape, vals)

\* result.success
Success(shape, vals) == safeParse(shape, vals) = << >>

(* ------------------------------------------------------------------ *)
(* fillErrorsFromIssues                                               *)
(* ------------------------------------------------------------------ *)

\* const path = issue.path ?? []
IssuePath(issue) == IF issue.hasPath THEN issue.path ELSE << >>

\* leaf && (leaf.key ?? leaf)
LeafKey(path) ==
  IF Len(path) = 0 THEN KUndef
  ELSE LET leaf == path[Len(path)]
       IN IF Truthy(SegVal(leaf)) THEN Nullish(SegKey(leaf), SegVal(leaf))
          ELSE SegVal(leaf)

\* Array.isArray(path) && path[0]?.key
FirstKey(path) == IF Len(path) = 0 THEN KUndef ELSE SegKey(path[1])

\* the key expression of lines 192-195
IssueKey(issue) ==
  LET path == IssuePath(issue)
  IN IF Truthy(LeafKey(path)) THEN LeafKey(path)
     ELSE IF Truthy(FirstKey(path)) THEN FirstKey(path)
     ELSE KStr("form")

\* issue.message || "Invalid"
IssueMessage(issue) == IF issue.message # "" THEN issue.message ELSE "Invalid"

\* a loop body that keeps the message already recorded for the key
RecordIssueFirst(errs, issue) ==
  IF IssueKey(issue).t = "str" /\ IssueKey(issue).s \notin DOMAIN errs
  THEN Put(errs, IssueKey(issue).s, IssueMessage(issue))
  ELSE errs

\* the loop body: record the message when the key is a string
RecordIssue(errs, issue) ==
  IF IssueKey(issue).t = "str"
  THEN Put(errs, IssueKey(issue).s, IssueMessage(issue))
  ELSE errs

RECURSIVE ApplyIssues(_, _)
ApplyIssues(errs, issues) ==
  IF issues = << >> THEN errs
  ELSE ApplyIssues(RecordIssue(errs, Head(issues)), Tail(issues))

\* clears the error map, then applies the issues in order
fillErrorsFromIssues(issues) == ApplyIssues(EmptyMap, issues)

\* recomputeErrors: the validation pass
recomputeErrors(shape, vals) == fillErrorsFromIssues(safeParse(shape, vals))

(* ------------------------------------------------------------------ *)
(* State                                                              *)
(* ------------------------------------------------------------------ *)

VARIABLES
  validationMode,    \* options.validationMode
  schema,            \* options.schema: the issue shape of its "tags" entry
  initialValues,     \* options.initialValues
  values,            \* reactive value map
  errors,            \* reactive error map
  hasValidatedOnce,
  hasSubmittedOnce,
  isSubmitting,
  bindings,          \* Map name -> binding object [id, modelValue, value];
                     \* id n is the n-th object created for that name
  created,           \* name -> number of binding objects created for it so far
  disposed,          \* the owning scope was torn down
  pending,           \* the arguments of the handler invocations started and
                     \* not yet settled, oldest first
  everSetErrors,     \* setErrors() was called
  ev                 \* the latest operation and what it returned

vars == << validationMode, schema, initialValues, values, errors,
           hasValidatedOnce, hasSubmittedOnce, isSubmitting, bindings, created,
           disposed, pending, everSetErrors, ev >>

\* the options, fixed at construction
config == << validationMode, schema, initialValues >>

\* what an operation reports: op, the field it names, whether a validation
\* pass ran, whether the handler was invoked, with what argument and what
\* isSubmitting it saw, the error the handler raised, how the submit() promise
\* settled, the identity of the object bind() returned, and (for a submit()
\* made right after a handler completion) how that handler settled
Event(op, name, pass, invoked, arg, saw, err, result, ret) ==
  [op |-> op, name |-> name, pass |-> pass, invoked |-> invoked, arg |-> arg,
   saw |-> saw, err |-> err, result |-> result, ret |-> ret, after |-> "none"]

Plain(op, name, pass) ==
  Event(op, name, pass, FALSE, EmptyMap, FALSE, "none", "none", 0)

Bound(name, ret) ==
  Event("bind", name, FALSE, FALSE, EmptyMap, FALSE, "none", "none", ret)

\* parseResult without the gate on hasValidatedOnce
parseResultUngated == Success(schema, values)

\* validity read off the errors map
parseResultFromErrors == DOMAIN errors = {}

\* parseResult.value.success
parseResultSuccess ==
  IF (validationMode = "submit" \/ validationMode = "blur") /\ ~hasValidatedOnce
  THEN TRUE
  ELSE Success(schema, values)

isInvalid == ~parseResultSuccess

getValue(vals, name) == Get(vals, name)

\* construction without the pass over the initial values
initialErrorsNone(mode, shape, initial) == EmptyMap

\* the error map after construction: filled from the initial values in
\* change mode
initialErrors(mode, shape, initial) ==
  IF mode = "change"
  THEN fillErrorsFromIssues(safeParse(shape, initial))
  ELSE EmptyMap

\* the state after useForm(options), the schema drawn from shapes and the
\* initial values from initials
InitOver(shapes, initials) ==
  /\ validationMode \in Modes
  /\ schema \in shapes
  /\ initialValues \in initials
  /\ values = initialValues
  /\ isSubmitting = FALSE
  /\ hasValidatedOnce = (validationMode = "change")
  /\ hasSubmittedOnce = FALSE
  /\ errors = initialErrors(validationMode, schema, initialValues)
  /\ bindings = EmptyMap
  /\ created = [f \in Fields |-> 0]
  /\ disposed = FALSE
  /\ pending = << >>
  /\ everSetErrors = FALSE
  /\ ev = Plain("init", "", validationMode = "change")

\* with the schemas of Shapes
InitWith(initials) == InitOver(Shapes, initials)

Init == InitWith(InitialValuesSet)

\* names bind() was called with so far
boundEver == {f \in Fields : created[f] > 0}

(* ------------------------------------------------------------------ *)
(* setValue and the binding handlers                                  *)
(* ------------------------------------------------------------------ *)

\* what a handler receives: a DOM-like event (with or without target.value)
\* or a raw value
Ev(tv) == [kind |-> "event", tv |-> tv, raw |-> UNDEF]
Raw(v) == [kind |-> "raw", tv |-> UNDEF, raw |-> v]
\* one payload of each kind the handlers tell apart, covering both values
Payloads == {Ev("good"), Raw("bad")}

\* every payload, the event that carries no target value included
AllPayloads == {Ev(v) : v \in Vals} \cup {Raw(v) : v \in Vals} \cup {Ev(UNDEF)}

\* e?.target?.value, without the fallback to the payload
eventValueTargetOnly(e) == IF e.kind = "event" THEN e.tv ELSE e.raw

\* e?.target?.value ?? e
eventValue(e) ==
  IF e.kind = "event"
  THEN IF e.tv # UNDEF THEN e.tv ELSE EVT
  ELSE e.raw

\* binding._updateBinding(), when the cache holds a binding for name
updateBinding(b, vals, name) ==
  IF name \in DOMAIN b
  THEN [b EXCEPT ![name] = [id |-> b[name].id,
                            modelValue |-> getValue(vals, name),
                            value |-> getValue(vals, name)]]
  ELSE b

\* setValue validating in change mode only
setValueRevalidatesChangeOnly == validationMode = "change"

\* setValue validating whenever validation is armed
setValueRevalidatesArmed == validationMode = "change" \/ hasValidatedOnce

\* the rule under which setValue runs a validation pass
setValueRevalidates ==
  \/ validationMode = "change"
  \/ validationMode = "submit" /\ hasSubmittedOnce

\* snapshots that share the live value map
heldSnapshotsAliased(p, name, value) ==
  [i \in 1..Len(p) |->
     IF name \in DOMAIN p[i] THEN [p[i] EXCEPT ![name] = value] ELSE p[i]]

\* the snapshots held by pending handlers after a write to the value map:
\* boundValues is an object of its own, a write does not reach it
heldSnapshots(p, name, value) == p

\* a setValue that replaces the whole value map by the one entry
setValueEffectReplacing(name, value) ==
  /\ values' = Put(EmptyMap, name, value)
  /\ bindings' = updateBinding(bindings, values', name)
  /\ pending' = heldSnapshots(pending, name, value)

\* the state change of setValue(name, value)
setValueEffect(name, value) ==
  /\ values' = Put(values, name, value)
  /\ bindings' = updateBinding(bindings, values', name)
  /\ pending' = heldSnapshots(pending, name, value)

\* a setValue pass that applies the issues over the entries already there
setValueErrorsPatched(vals) ==
  IF setValueRevalidates THEN ApplyIssues(errors, safeParse(schema, vals)) ELSE errors

\* the errors map after setValue: a validation pass when the rule says so
setValueErrors(vals) ==
  IF setValueRevalidates THEN recomputeErrors(schema, vals) ELSE errors

SetValue(name, value) ==
  /\ setValueEffect(name, value)
  /\ errors' = setValueErrors(values')
  /\ ev' = Plain("setValue", "", setValueRevalidates)
  /\ UNCHANGED << config, hasValidatedOnce, hasSubmittedOnce, isSubmitting,
                  created, disposed, everSetErrors >>

OnUpdateModelValue(name, v) ==
  /\ name \in boundEver
  /\ setValueEffect(name, v)
  /\ errors' = setValueErrors(values')
  /\ ev' = Plain("setValue", "", setValueRevalidates)
  /\ UNCHANGED << config, hasValidatedOnce, hasSubmittedOnce, isSubmitting,
                  created, disposed, everSetErrors >>

OnInput(name, e) ==
  /\ name \in boundEver
  /\ setValueEffect(name, eventValue(e))
  /\ errors' = setValueErrors(values')
  /\ ev' = Plain("setValue", "", setValueRevalidates)
  /\ UNCHANGED << config, hasValidatedOnce, hasSubmittedOnce, isSubmitting,
                  created, disposed, everSetErrors >>

OnChange(name, e) ==
  /\ name \in boundEver
  /\ setValueEffect(name, eventValue(e))
  /\ errors' = setValueErrors(values')
  /\ ev' = Plain("setValue", "", setValueRevalidates)
  /\ UNCHANGED << config, hasValidatedOnce, hasSubmittedOnce, isSubmitting,
                  created, disposed, everSetErrors >>

\* a blur that arms validation in every mode
blurValidatesAnyMode == TRUE

\* the blur branch of onBlur
blurValidates == validationMode = "blur"

OnBlur(name, e) ==
  /\ name \in boundEver
  /\ setValueEffect(name, eventValue(e))
  /\ hasValidatedOnce' = (IF blurValidates THEN TRUE ELSE hasValidatedOnce)
  /\ errors' = IF blurValidates THEN recomputeErrors(schema, values')
               ELSE setValueErrors(values')
  /\ ev' = Plain("onBlur", "", blurValidates \/ setValueRevalidates)
  /\ UNCHANGED << config, hasSubmittedOnce, isSubmitting,
                  created, disposed, everSetErrors >>

(* ------------------------------------------------------------------ *)
(* bind and scope teardown                                            *)
(* ------------------------------------------------------------------ *)

\* bind without the cache lookup
existingNever(b, name) == FALSE

\* const existing = bindings.get(name); if (existing) ...
existing(b, name) == name \in DOMAIN b

\* the reactive binding object created by bind(name)
newBinding(id, vals, name) ==
  [id |-> id, modelValue |-> getValue(vals, name), value |-> getValue(vals, name)]

Bind(name) ==
  /\ IF existing(bindings, name)
     THEN /\ UNCHANGED << bindings, created >>
          /\ ev' = Bound(name, bindings[name].id)
     ELSE /\ created[name] < MaxObjs
          /\ created' = [created EXCEPT ![name] = @ + 1]
          /\ bindings' = Put(bindings, name, newBinding(created'[name], values, name))
          /\ ev' = Bound(name, created'[name])
  /\ UNCHANGED << config, values, errors, hasValidatedOnce, hasSubmittedOnce,
                  isSubmitting, disposed, pending, everSetErrors >>

\* a teardown that leaves the cache as it is
disposeBindingsKept(b) == b

\* bindings.clear()
disposeBindings(b) == EmptyMap

\* onScopeDispose(() => bindings.clear())
Dispose ==
  /\ ~disposed
  /\ disposed' = TRUE
  /\ bindings' = disposeBindings(bindings)
  /\ ev' = Plain("dispose", "", FALSE)
  /\ UNCHANGED << config, values, errors, hasValidatedOnce, hasSubmittedOnce,
                  isSubmitting, created, pending, everSetErrors >>

(* ------------------------------------------------------------------ *)
(* submit and the awaited handler                                     *)
(* ------------------------------------------------------------------ *)

\* submit without the guard on isSubmitting
alreadySubmittingNever == FALSE

\* if (isSubmitting.value) return
alreadySubmitting == isSubmitting

\* submit blocked also by entries left in the errors map
submitBlockedByErrors(shape, vals) == ~Success(shape, vals) \/ DOMAIN errors # {}

\* submit validating the bound fields only
submitBlockedBound(shape, vals) == ~Success(shape, [f \in DOMAIN bindings |-> Get(vals, f)])

\* submit without the early return on a failed parse
submitBlockedNever(shape, vals) == FALSE

\* if (!result.success) return
submitBlocked(shape, vals) == ~Success(shape, vals)

\* the flag left unset when the handler is called
markSubmittingLate == FALSE

\* isSubmitting.value = true, before the handler is called
markSubmitting == TRUE

\* the flag left set after the handler settled
finallySubmittingStuck == isSubmitting

\* finally { isSubmitting.value = false }
finallySubmitting == FALSE

\* the handler given a copy of the whole value map
boundValuesAll(b, vals) == vals

\* a snapshot of the bound fields that have a value
boundValuesPresent(b, vals) == [f \in (DOMAIN b) \cap (DOMAIN vals) |-> vals[f]]

\* boundValues: one entry per key of the binding cache
boundValues(b, vals) == [f \in DOMAIN b |-> getValue(vals, f)]

\* a catch that swallows the handler's error
submitResultSwallowed(outcome, err) == "ok"

\* try / finally without catch: how the submit() promise settles
submitResult(outcome, err) == IF outcome = "resolve" THEN "ok" ELSE err

\* how the handler completion just before this call settled, if the previous
\* step was one
lastSettled == IF ev.op = "settle" THEN ev.result ELSE "none"

\* what a submit() call reports
Submitted(pass, invoked, arg, saw, err, result) ==
  [Event("submit", "", pass, invoked, arg, saw, err, result, 0)
     EXCEPT !.after = lastSettled]

\* submit(), up to its suspension at the await (or to its return)
Submit ==
  /\ IF alreadySubmitting
     THEN /\ ev' = Submitted(FALSE, FALSE, EmptyMap, FALSE, "none", "ok")
          /\ UNCHANGED << errors, hasValidatedOnce, hasSubmittedOnce,
                          isSubmitting, pending >>
     ELSE /\ hasValidatedOnce' = TRUE
          /\ hasSubmittedOnce' = TRUE
          /\ errors' = recomputeErrors(schema, values)
          /\ IF submitBlocked(schema, values)
             THEN /\ ev' = Submitted(TRUE, FALSE, EmptyMap, FALSE, "none", "ok")
                  /\ UNCHANGED << isSubmitting, pending >>
             ELSE \/ \* the handler returns a pending operation
                     /\ Len(pending) < MaxPending
                     /\ pending' = Append(pending, boundValues(bindings, values))
                     /\ isSubmitting' = markSubmitting
                     /\ ev' = Submitted(TRUE, TRUE, boundValues(bindings, values),
                                        markSubmitting, "none", "none")
                  \/ \* the handler throws before returning
                     \E err \in HandlerErrors :
                       /\ pending' = pending
                       /\ isSubmitting' = finallySubmitting
                       /\ ev' = Submitted(TRUE, TRUE, boundValues(bindings, values),
                                          markSubmitting, err,
                                          submitResult("throw", err))
  /\ UNCHANGED << config, values, bindings, created, disposed, everSetErrors >>

\* the oldest pending handler resolves or rejects and its submit() resumes
\* after the await
Settle(outcome, err) ==
  /\ pending # << >>
  /\ pending' = Tail(pending)
  /\ isSubmitting' = finallySubmitting
  /\ ev' = Event("settle", "", FALSE, FALSE, EmptyMap, FALSE,
                 IF outcome = "reject" THEN err ELSE "none",
                 submitResult(outcome, err), 0)
  /\ UNCHANGED << config, values, errors, hasValidatedOnce, hasSubmittedOnce,
                  bindings, created, disposed, everSetErrors >>

(* ------------------------------------------------------------------ *)
(* reset and setErrors                                                *)
(* ------------------------------------------------------------------ *)

\* reset that assigns the new values over the old keys
resetValuesMerged(vals, nextValues) ==
  [k \in (DOMAIN vals) \cup (DOMAIN nextValues) |->
     IF k \in DOMAIN nextValues THEN nextValues[k] ELSE vals[k]]

\* delete every key of values, then Object.assign(values, nextValues)
resetValues(vals, nextValues) == nextValues

\* reset that leaves hasSubmittedOnce as it is
resetSubmittedOnceKept == hasSubmittedOnce

\* hasSubmittedOnce.value = false
resetSubmittedOnce == FALSE

\* reset that disarms validation in every mode
resetValidatedOnceFalse == FALSE

\* hasValidatedOnce.value = validationMode === "change"
resetValidatedOnce == validationMode = "change"

\* reset that only clears the errors
resetErrorsCleared(mode, shape, vals) == EmptyMap

\* the errors after reset: cleared, then filled from the new values in
\* change mode
resetErrors(mode, shape, vals) ==
  IF mode = "change" THEN fillErrorsFromIssues(safeParse(shape, vals)) ELSE EmptyMap

\* a reset that gives up the pending submit
resetSubmittingCleared == FALSE

\* reset does not assign isSubmitting
resetSubmitting == isSubmitting

Reset(nextValues) ==
  /\ values' = resetValues(values, nextValues)
  /\ isSubmitting' = resetSubmitting
  /\ hasValidatedOnce' = resetValidatedOnce
  /\ hasSubmittedOnce' = resetSubmittedOnce
  /\ errors' = resetErrors(validationMode, schema, values')
  /\ ev' = Plain("reset", "", validationMode = "change")
  /\ UNCHANGED << config, bindings, created, disposed, pending, everSetErrors >>

\* setErrors that assigns the new entries over the old ones
setErrorsMerged(errs, next) ==
  [k \in (DOMAIN errs) \cup (DOMAIN next) |->
     IF k \in DOMAIN next THEN next[k] ELSE errs[k]]

\* delete every key of errors, then Object.assign(errors, next)
setErrorsResult(errs, next) == next

SetErrors(next) ==
  /\ errors' = setErrorsResult(errors, next)
  /\ everSetErrors' = TRUE
  /\ ev' = Plain("setErrors", "", FALSE)
  /\ UNCHANGED << config, values, hasValidatedOnce, hasSubmittedOnce,
                  isSubmitting, bindings, created, disposed, pending >>

(* ------------------------------------------------------------------ *)
(* Specification                                                      *)
(* ------------------------------------------------------------------ *)

\* the operations while the owning scope is alive
Next ==
  \/ \E name \in Fields, v \in Vals : SetValue(name, v)
  \/ \E name \in Fields, v \in Vals : OnUpdateModelValue(name, v)
  \/ \E name \in Fields, e \in Payloads : OnInput(name, e)
  \/ \E name \in Fields, e \in Payloads : OnChange(name, e)
  \/ \E name \in Fields, e \in Payloads : OnBlur(name, e)
  \/ \E name \in Fields : Bind(name)
  \/ Submit
  \/ \E outcome \in {"resolve", "reject"}, err \in HandlerErrors : Settle(outcome, err)
  \/ \E nextValues \in {initialValues} \cup ResetArgs : Reset(nextValues)
  \/ \E next \in SetErrorsArgs : SetErrors(next)

Spec == Init /\ [][Next]_vars

\* the operations that do not arm validation: no submit(), and no blur event
\* in blur mode
NextNeutral ==
  \/ \E name \in Fields, v \in Vals : SetValue(name, v)
  \/ \E name \in Fields, v \in Vals : OnUpdateModelValue(name, v)
  \/ \E name \in Fields, e \in Payloads : OnInput(name, e)
  \/ \E name \in Fields, e \in Payloads : OnChange(name, e)
  \/ \E name \in Fields, e \in Payloads : validationMode # "blur" /\ OnBlur(name, e)
  \/ \E name \in Fields : Bind(name)
  \/ \E nextValues \in {initialValues} \cup ResetArgs : Reset(nextValues)
  \/ \E next \in SetErrorsArgs : SetErrors(next)

SpecNeutral == Init /\ [][NextNeutral]_vars

\* construction over the wider set of initial values
InitWide == InitWith(InitialValuesWide)

SpecConstruction == InitWide /\ [][NextNeutral]_vars

\* construction over the wider set of schemas
InitIssues == InitOver(ShapesWide, InitialValuesSet)

\* the operations that need no binding
NextUnbound ==
  \/ \E name \in Fields, v \in Vals : SetValue(name, v)
  \/ Submit
  \/ \E outcome \in {"resolve", "reject"}, err \in HandlerErrors : Settle(outcome, err)
  \/ \E nextValues \in {initialValues} \cup ResetArgs : Reset(nextValues)
  \/ \E next \in SetErrorsArgs : SetErrors(next)

SpecIssues == InitIssues /\ [][NextUnbound]_vars

\* the operations with the teardown of the owning scope
NextTeardown == Next \/ Dispose

SpecTeardown == Init /\ [][NextTeardown]_vars

\* the handlers under every kind of payload, the event without a target
\* value included
NextEvents ==
  \/ \E name \in Fields : Bind(name)
  \/ \E name \in Fields, e \in AllPayloads : OnInput(name, e)
  \/ \E name \in Fields, e \in AllPayloads : OnChange(name, e)
  \/ \E name \in Fields, e \in AllPayloads : OnBlur(name, e)
  \/ Submit
  \/ \E outcome \in {"resolve", "reject"}, err \in HandlerErrors : Settle(outcome, err)

SpecEvents == Init /\ [][NextEvents]_vars

\* the binding handlers, with submit() and the handler completion
NextHandlers ==
  \/ \E name \in Fields : Bind(name)
  \/ \E name \in Fields, v \in Vals : OnUpdateModelValue(name, v)
  \/ \E name \in Fields, e \in Payloads : OnInput(name, e)
  \/ \E name \in Fields, e \in Payloads : OnChange(name, e)
  \/ \E name \in Fields, e \in Payloads : OnBlur(name, e)
  \/ Submit
  \/ \E outcome \in {"resolve", "reject"}, err \in HandlerErrors : Settle(outcome, err)

SpecHandlers == Init /\ [][NextHandlers]_vars

\* writes and resets around a pending submit
NextWrites ==
  \/ \E name \in Fields, v \in Vals : SetValue(name, v)
  \/ \E name \in Fields : Bind(name)
  \/ Submit
  \/ \E outcome \in {"resolve", "reject"}, err \in HandlerErrors : Settle(outcome, err)
  \/ \E nextValues \in {initialValues} \cup ResetArgs : Reset(nextValues)

SpecWrites == Init /\ [][NextWrites]_vars

\* binding and submitting across the teardown of the owning scope
NextScope ==
  \/ \E name \in Fields, v \in Vals : SetValue(name, v)
  \/ \E name \in Fields : Bind(name)
  \/ Dispose
  \/ Submit
  \/ \E outcome \in {"resolve", "reject"}, err \in HandlerErrors : Settle(outcome, err)

SpecScope == Init /\ [][NextScope]_vars

\* a pending handler settles
SettleAny ==
  \E outcome \in {"resolve", "reject"}, err \in HandlerErrors : Settle(outcome, err)

\* the operations that need no binding, every handler invocation settling
\* eventually
SpecSettling == Init /\ [][NextUnbound]_vars /\ WF_vars(SettleAny)

(* ------------------------------------------------------------------ *)
(* Properties                                                         *)
(* ------------------------------------------------------------------ *)

\* C1: the handler is invoked only by a step that starts with no invocation
\* pending and isSubmitting false, so at most one invocation is ever pending;
\* a submit() made while isSubmitting is true invokes nothing, and the step in
\* which a pending invocation settles invokes nothing either.
C1_FirstCallWins ==
  [][ /\ ev'.invoked => (pending = << >> /\ ~isSubmitting)
      /\ (Submit /\ isSubmitting) => ~ev'.invoked
      /\ (\E o \in {"resolve", "reject"}, err \in HandlerErrors : Settle(o, err))
           => ~ev'.invoked
      /\ Len(pending') <= 1 ]_vars

\* a submit() made while an invocation is pending, which invoked nothing
C1_Witness ==
  ev.op = "submit" /\ ~ev.invoked /\ Len(pending) = 1 /\ isSubmitting

\* C2: a submit() call made while isSubmitting is true changes none of values,
\* errors, hasValidatedOnce, hasSubmittedOnce, isSubmitting and the bound
\* fields.
C2_NoopFrame ==
  [][ (Submit /\ isSubmitting) =>
        UNCHANGED << values, errors, hasValidatedOnce, hasSubmittedOnce,
                     isSubmitting, bindings, created, pending >> ]_vars

\* after such a call, entries that setErrors put meanwhile are still there
C2_Witness ==
  /\ ev.op = "submit" /\ ~ev.pass /\ ~ev.invoked /\ isSubmitting
  /\ everSetErrors /\ DOMAIN errors # {}

\* C3: isSubmitting is true exactly when a handler invocation has started and
\* has not settled, and the handler sees it true when it starts.
C3_SubmittingIffPending ==
  /\ isSubmitting <=> pending # << >>
  /\ ev.invoked => ev.saw
  /\ (ev.op = "submit" /\ ev.pass /\ ~ev.invoked) => ~isSubmitting

\* the handler has just been invoked and is pending
C3_Witness == ev.op = "submit" /\ ev.invoked /\ ev.saw /\ isSubmitting

\* C4: when the handler rejects or throws, submit() fails with that error,
\* isSubmitting is false afterwards, and values, errors and both flags are
\* as they were while the handler was pending.
C4_RejectionPropagates ==
  [][ /\ (ev'.op = "settle" /\ ev'.err # "none") =>
           /\ ev'.result = ev'.err
           /\ ~isSubmitting'
           /\ UNCHANGED << values, errors, hasValidatedOnce, hasSubmittedOnce >>
      /\ (ev'.op = "submit" /\ ev'.err # "none") =>
           /\ ev'.result = ev'.err
           /\ ~isSubmitting'
           /\ values' = values
           /\ errors' = recomputeErrors(schema, values)
           /\ hasValidatedOnce' /\ hasSubmittedOnce' ]_vars

\* a pending handler rejected with "fail" and submit() failed with it
C4_Witness ==
  /\ ev.op = "settle" /\ ev.err = "fail" /\ ev.result = "fail"
  /\ ~isSubmitting /\ hasSubmittedOnce

\* C5: in every mode, a submit() made with no submit pending and values that
\* fail the schema does not invoke the handler, leaves isSubmitting false and
\* completes normally.
C5_InvalidNeverSubmits ==
  [][ (Submit /\ ~isSubmitting /\ ~Success(schema, values)) =>
        /\ ~ev'.invoked
        /\ ~isSubmitting'
        /\ pending' = pending
        /\ ev'.result = "ok" ]_vars

\* a submit() in blur mode that ran its pass and returned without the handler
C5_Witness ==
  /\ validationMode = "blur" /\ ev.op = "submit" /\ ev.pass /\ ~ev.invoked
  /\ ~Success(schema, values) /\ ev.result = "ok" /\ ~isSubmitting

\* C6: after a validation pass that found the values invalid, isInvalid is
\* true and the errors map has at least one entry, whatever the issue's shape.
C6_FailureSurfaced ==
  (ev.pass /\ ~Success(schema, values)) => (isInvalid /\ DOMAIN errors # {})

C8_StableBinding ==
  /\ \A f \in Fields : created[f] <= 1
  /\ \A f \in DOMAIN bindings : bindings[f].id = 1
  /\ ev.op = "bind" => (ev.ret = 1 /\ bindings[ev.name].id = 1)

\* bind returned the first object although it was created before the latest
\* reset: its stored value is older than the value map
C8_Witness ==
  /\ ev.op = "bind" /\ ev.ret = 1 /\ hasSubmittedOnce
  /\ bindings[ev.name].modelValue # getValue(values, ev.name)

\* C9: for every bound field, the binding's modelValue and value equal
\* getValue(name).
C9_BindingLive ==
  \A f \in DOMAIN bindings :
    /\ bindings[f].modelValue = getValue(values, f)
    /\ bindings[f].value = getValue(values, f)

\* C10: in submit and blur modes, in every state reached without submit()
\* (and, in blur mode, without a blur event), isInvalid is false and, unless
\* setErrors was called, the errors map is empty.
C10_NeutralUntilArmed ==
  validationMode \in {"submit", "blur"} =>
    /\ ~isInvalid
    /\ ~everSetErrors => DOMAIN errors = {}

\* blur mode, a field bound, and a write that left the values failing the
\* schema: no error shown, no setErrors call
C10_Witness ==
  /\ validationMode = "blur" /\ ev.op = "setValue" /\ boundEver # {}
  /\ ~Success(schema, values) /\ ~everSetErrors /\ DOMAIN errors = {}

\* C11: in submit mode, from the first submit() attempt until the next
\* reset, every setValue recomputes errors and isInvalid against the new
\* values: a passing value map leaves no error and isInvalid false, a failing
\* one shows an error and isInvalid true at once.
C11_LiveAfterSubmit ==
  [][ (validationMode = "submit" /\ hasSubmittedOnce /\ ev'.op = "setValue") =>
        /\ errors' = fillErrorsFromIssues(safeParse(schema, values'))
        /\ isInvalid' = ~Success(schema, values')
        /\ (DOMAIN errors' # {}) = ~Success(schema, values') ]_vars

\* C12: in change mode, right after construction, isInvalid equals "the
\* initial values fail the schema" and the errors map holds the messages of
\* validating the initial values.
C12_InitialValidation ==
  (validationMode = "change" /\ ev.op = "init") =>
    /\ isInvalid = ~Success(schema, initialValues)
    /\ {errors[k] : k \in DOMAIN errors} =
         {IssueMessage(safeParse(schema, initialValues)[i]) :
            i \in 1..Len(safeParse(schema, initialValues))}

\* C13: in blur mode setValue and the model-update, input and change
\* handlers never change the errors map; only a blur event, submit(), reset()
\* or setErrors() changes it.
C13_BlurModeEditsSilent ==
  [][ validationMode = "blur" =>
        /\ ( \/ \E name \in Fields, v \in Vals : SetValue(name, v)
             \/ \E name \in Fields, v \in Vals : OnUpdateModelValue(name, v)
             \/ \E name \in Fields, e \in Payloads : OnInput(name, e)
             \/ \E name \in Fields, e \in Payloads : OnChange(name, e) )
             => errors' = errors
        /\ errors' # errors => ev'.op \in {"onBlur", "submit", "reset", "setErrors"} ]_vars

\* blur mode, validation armed by an earlier blur or submit, then an edit
\* that broke the values: the errors map is still empty
C13_Witness ==
  /\ validationMode = "blur" /\ ev.op = "setValue" /\ hasValidatedOnce
  /\ ~FieldOk(values, "email") /\ ~everSetErrors /\ DOMAIN errors = {}

\* C14: in blur mode every blur-handler invocation sets hasValidatedOnce and
\* runs a validation pass; right after it isInvalid and the errors map both
\* match the validity of the current values: an error is shown exactly when
\* the values fail the schema.
C14_BlurValidates ==
  (validationMode = "blur" /\ ev.op = "onBlur") =>
    /\ hasValidatedOnce
    /\ ev.pass
    /\ isInvalid = ~Success(schema, values)
    /\ (DOMAIN errors # {}) = ~Success(schema, values)

\* C15: isInvalid is true whenever hasValidatedOnce is false and the mode is
\* submit or blur.
C15_InvalidWhileUnarmed ==
  (~hasValidatedOnce /\ validationMode \in {"submit", "blur"}) => isInvalid

\* C15, amended: isInvalid is false whenever hasValidatedOnce is false and the
\* mode is submit or blur.
C15_ValidWhileUnarmed ==
  (~hasValidatedOnce /\ validationMode \in {"submit", "blur"}) => ~isInvalid

\* submit mode, not armed, after a write that left the values failing the schema
C15_Witness ==
  /\ validationMode = "submit" /\ ~hasValidatedOnce /\ ev.op = "setValue"
  /\ ~Success(schema, values) /\ ~isInvalid

C17_BlurModeAppearsValid ==
  [][ ( /\ validationMode = "blur" /\ hasValidatedOnce /\ ~hasSubmittedOnce
        /\ ~isInvalid /\ ev'.op = "setValue" ) =>
        (errors' = errors /\ ~isInvalid') ]_vars

\* C18: reset(nextValues) makes the value map exactly nextValues, and reset()
\* makes it exactly the initial values: no key written meanwhile survives.
C18_ResetReplacesValues ==
  [][ \A nextValues \in {initialValues} \cup ResetArgs :
        Reset(nextValues) => values' = nextValues ]_vars

\* reset() restored the initial values and removed the key "tags", which an
\* earlier write had set to "bad" (the binding still stores it)
C18_Witness ==
  /\ ev.op = "reset" /\ values = initialValues /\ "tags" \notin DOMAIN values
  /\ "tags" \in DOMAIN bindings /\ bindings["tags"].modelValue = "bad"

\* C19: reset() sets hasSubmittedOnce false and hasValidatedOnce to "mode is
\* change"; in submit and blur modes errors is empty and isInvalid false
\* right after it, in change mode both come from validating the new values;
\* in submit mode a setValue after reset changes no error until a submit().
C19_ResetRearms ==
  [][ /\ ev'.op = "reset" =>
           /\ ~hasSubmittedOnce'
           /\ hasValidatedOnce' = (validationMode = "change")
           /\ validationMode # "change" =>
                (DOMAIN errors' = {} /\ ~isInvalid')
           /\ validationMode = "change" =>
                /\ errors' = fillErrorsFromIssues(safeParse(schema, values'))
                /\ isInvalid' = ~Success(schema, values')
      /\ (validationMode = "submit" /\ ~hasSubmittedOnce /\ ev'.op = "setValue") =>
           (errors' = errors /\ ~isInvalid') ]_vars

\* submit mode: a reset made while a submit is pending left failing values,
\* no error and both flags false
C19_Witness ==
  /\ validationMode = "submit" /\ ev.op = "reset" /\ pending # << >>
  /\ ~hasSubmittedOnce /\ ~hasValidatedOnce
  /\ ~Success(schema, values) /\ DOMAIN errors = {} /\ ~isInvalid

\* C20: after a validation pass the errors map holds exactly the entries of
\* that pass's issues: its keys are the string keys the issues resolve to,
\* each message is that of an issue with that key, and nothing else is there.
C20_PassReplacesErrors ==
  ev.pass =>
    LET issues == safeParse(schema, values)
        keyed == {i \in 1..Len(issues) : IssueKey(issues[i]).t = "str"}
    IN /\ DOMAIN errors = {IssueKey(issues[i]).s : i \in keyed}
       /\ \A k \in DOMAIN errors :
            \E i \in keyed : /\ IssueKey(issues[i]).s = k
                             /\ errors[k] = IssueMessage(issues[i])

\* a submit() on passing values after setErrors: the pass left the map empty
C20_Witness ==
  /\ ev.op = "submit" /\ ev.pass /\ ev.invoked /\ everSetErrors
  /\ DOMAIN errors = {}

\* C21: after a validation pass every issue of the pass has its text in the
\* errors map under the key of its deepest path segment, or of the first
\* segment when the deepest carries no key, or "form" when it has no path;
\* the text is the issue's message, or a non-empty fallback when that is
\* empty.
C21_KeyOfIssue ==
  ev.pass =>
    LET issues == safeParse(schema, values)
        keyText(seg) ==
          CASE seg.t = "num" -> IF seg.n = 0 THEN "0" ELSE "1"
            [] OTHER -> seg.s
        hasKey(seg) == seg.t \in {"str", "num", "plain"}
        claimedKey(issue) ==
          IF ~issue.hasPath \/ Len(issue.path) = 0 THEN "form"
          ELSE IF hasKey(issue.path[Len(issue.path)])
               THEN keyText(issue.path[Len(issue.path)])
               ELSE keyText(issue.path[1])
    IN \A i \in 1..Len(issues) :
         /\ claimedKey(issues[i]) \in DOMAIN errors
         /\ \E j \in 1..Len(issues) :
              /\ claimedKey(issues[j]) = claimedKey(issues[i])
              /\ errors[claimedKey(issues[i])] # ""
              /\ issues[j].message # "" =>
                   errors[claimedKey(issues[i])] = issues[j].message

\* C22: when several issues of one validation pass resolve to the same key,
\* the errors map holds one message for that key, that of the last of them.
C22_LastIssueWins ==
  ev.pass =>
    LET issues == safeParse(schema, values)
    IN \A i \in 1..Len(issues) :
         ( /\ IssueKey(issues[i]).t = "str"
           /\ \A j \in (i + 1)..Len(issues) : IssueKey(issues[j]) # IssueKey(issues[i]) )
         => errors[IssueKey(issues[i]).s] = IssueMessage(issues[i])

\* a pass over two issues keyed "tags" left the message of the second
C22_Witness ==
  /\ ev.pass /\ schema = "dup" /\ Len(TagsIssues(schema, values)) = 2
  /\ errors["tags"] = "Too few tags"

\* C23: after setErrors(map) the errors map equals map: entries whose key map
\* lacks are gone and every entry of map is there.
C23_SetErrorsReplaces ==
  [][ \A next \in SetErrorsArgs : SetErrors(next) => errors' = next ]_vars

\* change mode, "email" failing: setErrors({}) removed the entry of the pass
C23_Witness ==
  /\ ev.op = "setErrors" /\ validationMode = "change"
  /\ ~FieldOk(values, "email") /\ DOMAIN errors = {}

\* C24: a handler completion invokes nothing and leaves isSubmitting false
\* whether it resolved or rejected; every submit() made with isSubmitting
\* false on values that pass the schema invokes the handler, a submit() made
\* right after a completion included; one step never starts more than one
\* invocation, and only submit() starts one.
C24_NoRetryNoLock ==
  [][ /\ (\E o \in {"resolve", "reject"}, err \in HandlerErrors : Settle(o, err))
           => (~ev'.invoked /\ ~isSubmitting' /\ Len(pending') = Len(pending) - 1)
      /\ (Submit /\ ~isSubmitting /\ Success(schema, values)) => ev'.invoked
      /\ (ev'.op = "submit" /\ ev'.after # "none")
           => (ev'.invoked = Success(schema, values))
      /\ ev'.invoked => (Submit /\ Len(pending') <= Len(pending) + 1)
      /\ ~ev'.invoked => Len(pending') <= Len(pending) ]_vars

\* a submit() made right after a rejected handler invoked the handler again
C24_Witness ==
  /\ ev.op = "submit" /\ ev.after \in HandlerErrors /\ ev.invoked
  /\ Len(pending) = 1 /\ isSubmitting

C27_FlagsOrdered ==
  /\ hasSubmittedOnce => hasValidatedOnce
  /\ validationMode = "change" => hasValidatedOnce
  /\ validationMode = "submit" => (hasValidatedOnce = hasSubmittedOnce)

\* submit mode: a blur event after a reset left both flags false
C27_Witness ==
  /\ validationMode = "submit" /\ ev.op = "onBlur"
  /\ ~hasValidatedOnce /\ ~hasSubmittedOnce /\ pending # << >>

\* C28: a step other than reset() never turns hasValidatedOnce or
\* hasSubmittedOnce from true to false, and in change mode no step, reset()
\* included, leaves hasValidatedOnce false.
C28_FlagsSticky ==
  [][ /\ ev'.op # "reset" =>
           /\ hasValidatedOnce => hasValidatedOnce'
           /\ hasSubmittedOnce => hasSubmittedOnce'
      /\ validationMode = "change" => hasValidatedOnce' ]_vars

\* change mode: a reset() made after a submit() lowered hasSubmittedOnce only
C28_Witness ==
  /\ validationMode = "change" /\ ev.op = "reset" /\ pending # << >>
  /\ hasValidatedOnce /\ ~hasSubmittedOnce

\* C29: setErrors does not change isInvalid, and a submit() made with
\* isSubmitting false on values that pass the schema invokes the handler and
\* leaves the errors map empty, whatever entries it held.
C29_SetErrorsNeverGates ==
  [][ /\ (\E next \in SetErrorsArgs : SetErrors(next)) => (isInvalid' = isInvalid)
      /\ (Submit /\ ~isSubmitting /\ Success(schema, values))
           => (ev'.invoked /\ DOMAIN errors' = {}) ]_vars

\* an armed form with passing values holds a setErrors entry and is not invalid
C29_Witness ==
  /\ ev.op = "setErrors" /\ "email" \in DOMAIN errors
  /\ hasValidatedOnce /\ Success(schema, values) /\ ~isInvalid

\* C30: a submit() made with isSubmitting false invokes the handler exactly
\* when the full value map passes the schema; no step invokes the handler on
\* a full map that fails it.
C30_DecisionOnFullMap ==
  [][ /\ ev'.invoked => Success(schema, values)
      /\ (Submit /\ ~isSubmitting) => (ev'.invoked = Success(schema, values)) ]_vars

\* a submit() blocked by an unbound "tags" although the snapshot of the bound
\* fields passes the schema
C30_Witness ==
  /\ ev.op = "submit" /\ ev.pass /\ ~ev.invoked /\ "tags" \notin DOMAIN bindings
  /\ ~Success(schema, values) /\ Success(schema, boundValues(bindings, values))

C32_SnapshotHeld ==
  [][ pending # << >> =>
        /\ \A name \in Fields, v \in Vals :
             SetValue(name, v) => (values'[name] = v /\ pending' = pending)
        /\ \A nextValues \in {initialValues} \cup ResetArgs :
             Reset(nextValues) => (values' = nextValues /\ pending' = pending)
        /\ ev'.op \in {"setValue", "onBlur", "reset"} => pending' = pending ]_vars

\* a setValue made while the handler is pending: the handler's snapshot holds
\* the old "email", the value map the new one
C32_Witness ==
  /\ ev.op = "setValue" /\ Len(pending) = 1 /\ "email" \in DOMAIN pending[1]
  /\ pending[1]["email"] = "good" /\ values["email"] = "bad"

\* C33: reset() changes neither isSubmitting, nor the pending invocation, nor
\* the binding cache and the set of bound names.
C33_ResetFrame ==
  [][ ev'.op = "reset" =>
        /\ isSubmitting' = isSubmitting
        /\ pending' = pending
        /\ DOMAIN bindings' = DOMAIN bindings
        /\ boundEver' = boundEver ]_vars

\* a reset() made while the handler is pending, with both fields bound
C33_Witness ==
  /\ ev.op = "reset" /\ isSubmitting /\ Len(pending) = 1
  /\ DOMAIN bindings = Fields

\* C34: setValue(name, v) makes getValue(name) return v and changes no other
\* field's value, neither flag, isSubmitting nor the set of bound fields.
C34_SetValueFrame ==
  [][ \A name \in Fields, v \in Vals :
        SetValue(name, v) =>
          /\ getValue(values', name) = v
          /\ \A f \in Fields \ {name} : getValue(values', f) = getValue(values, f)
          /\ DOMAIN values' = (DOMAIN values) \cup {name}
          /\ hasValidatedOnce' = hasValidatedOnce
          /\ hasSubmittedOnce' = hasSubmittedOnce
          /\ isSubmitting' = isSubmitting
          /\ DOMAIN bindings' = DOMAIN bindings
          /\ boundEver' = boundEver ]_vars

\* a setValue made while the handler is pending, the other field keeping its
\* value
C34_Witness ==
  /\ ev.op = "setValue" /\ isSubmitting /\ pending # << >>
  /\ DOMAIN values = Fields /\ values["email"] = "good" /\ values["tags"] = "bad"

\* C35: a step of the model-update, input or change handler of bind(name) is
\* a step of setValue(name, payload value); a step of the blur handler in
\* change or submit mode changes values, bindings, errors and the flags as
\* setValue(name, payload value) does and runs a pass under setValue's rule.
C35_HandlersAreSetValue ==
  [][ \A name \in Fields :
        /\ \A v \in Vals : OnUpdateModelValue(name, v) => SetValue(name, v)
        /\ \A e \in Payloads :
             /\ OnInput(name, e) => SetValue(name, eventValue(e))
             /\ OnChange(name, e) => SetValue(name, eventValue(e))
             /\ (validationMode # "blur" /\ OnBlur(name, e)) =>
                  /\ values' = Put(values, name, eventValue(e))
                  /\ bindings' = updateBinding(bindings, values', name)
                  /\ errors' = setValueErrors(values')
                  /\ ev'.pass = setValueRevalidates
                  /\ UNCHANGED << hasValidatedOnce, hasSubmittedOnce,
                                  isSubmitting, pending, created >> ]_vars

\* submit mode after a submit(): a blur event ran the pass of setValue's rule
C35_Witness ==
  /\ validationMode = "submit" /\ ev.op = "onBlur" /\ ev.pass
  /\ hasSubmittedOnce /\ "email" \in DOMAIN errors

\* C36: the input, change and blur handlers store the event's target value
\* when it has one and the payload itself otherwise; in blur mode the pass of
\* the blur handler runs on the value map that holds the stored value.
C36_PayloadStored ==
  [][ \A name \in Fields, e \in AllPayloads :
        (OnInput(name, e) \/ OnChange(name, e) \/ OnBlur(name, e)) =>
          /\ name \in DOMAIN values'
          /\ values'[name] =
               (CASE e.kind = "raw" -> e.raw
                  [] e.kind = "event" /\ e.tv # UNDEF -> e.tv
                  [] OTHER -> EVT)
          /\ (validationMode = "blur" /\ ev'.op = "onBlur") =>
               errors' = fillErrorsFromIssues(safeParse(schema, values')) ]_vars

\* blur mode: a blur event without target value replaced "email" by the event
\* and the pass reported it
C36_Witness ==
  /\ validationMode = "blur" /\ ev.op = "onBlur" /\ "email" \in DOMAIN values
  /\ values["email"] = EVT /\ "email" \in DOMAIN errors

\* C37: the teardown empties the binding cache; afterwards the cache gains a
\* name only by a bind(name) that creates an object not created before, and
\* every snapshot handed to the handler has the keys of the cache, so only
\* names bound after the teardown.
C37_TeardownClearsCache ==
  [][ /\ Dispose => bindings' = EmptyMap
      /\ \A f \in Fields :
           (disposed /\ f \notin DOMAIN bindings /\ f \in DOMAIN bindings') =>
             /\ Bind(f)
             /\ ev'.ret = created[f] + 1
             /\ bindings'[f].id = ev'.ret
      /\ ev'.invoked => DOMAIN ev'.arg = DOMAIN bindings ]_vars

\* after the teardown the handler got "tags" only, although "email" had been
\* bound before the teardown
C37_Witness ==
  /\ disposed /\ ev.op = "submit" /\ ev.invoked
  /\ created["email"] = 1 /\ "email" \notin DOMAIN bindings
  /\ DOMAIN ev.arg = {"tags"}

\* C38: when every handler invocation eventually settles, every state with
\* isSubmitting true is followed by one with isSubmitting false, and every
\* pending invocation by a state where none is pending.
C38_SubmittingEnds ==
  /\ isSubmitting ~> ~isSubmitting
  /\ (pending # << >>) ~> (pending = << >>)

\* a handler resolved and its submit() returned, leaving isSubmitting false
C38_Witness ==
  /\ ev.op = "settle" /\ ev.result = "ok" /\ ~isSubmitting /\ pending = << >>

====
